---- MODULE Spec2Model ----
(***************************************************************************)
(* A model of the litehouse front-end helpers and launch scripts:          *)
(*   filter_list        the Entity / Entity Fields search filter           *)
(*   close_modal.js     the modal dismissal run after an HTMX swap         *)
(*   copy_to_clipboard  the clipboard helper                               *)
(*   litehouse-start.bat / litehouse-install.bat                           *)
(* A JavaScript string is a sequence of characters, a character is a       *)
(* one-element token ("a", "A", " ", "U+212A").  JavaScript handlers run   *)
(* to completion, so each handler is one action.                           *)
(***************************************************************************)
EXTENDS Integers, Sequences, FiniteSets, TLC

VARIABLES
    list_search,   \* value of the text input with id 'list_search'
    list_items,    \* the <li> children of the list with id "list_items"
    filterRun,     \* how the last filter_list call on the current value ended
    shown,         \* the .modal elements that carry the class show
    instances,     \* the .modal elements that have a bootstrap.Modal instance
    hiding,        \* the modals whose hide transition has not finished
    ownBackdrop,   \* the modals whose own .modal-backdrop element is in the page
    strayBackdrops,\* the number of .modal-backdrop elements left without a modal
    closeRun,      \* what the last run of close_modal.js found
    fieldValue,    \* the value of each text field
    selection,     \* the text field whose text is selected
    permission,    \* the clipboard-write permission
    clipboard,     \* the content of the system clipboard
    pendingWrites, \* the writeText promises that have not settled
    clipEvent,     \* the last clipboard step
    venv,          \* whether .venv exists in the working directory
    venvCreatedBy, \* the script that created .venv
    startPc,       \* the line of litehouse-start.bat about to run
    startArg,      \* the argument the user gave litehouse-start.bat
    startRun,      \* what the current run of litehouse-start.bat did
    installPc,     \* the line of litehouse-install.bat about to run
    installRun     \* what the current run of litehouse-install.bat did

filterVars == <<list_search, list_items, filterRun>>

modalVars == <<shown, instances, hiding, ownBackdrop, strayBackdrops, closeRun>>

clipVars == <<fieldValue, selection, permission, clipboard, pendingWrites, clipEvent>>

scriptVars == <<venv, venvCreatedBy, startPc, startArg, startRun, installPc, installRun>>

vars == <<filterVars, modalVars, clipVars, scriptVars>>

-----------------------------------------------------------------------------
(* Bounds of the model.                                                    *)

MaxItems == 1

MaxLabelLen == 1

MaxQueryLen == 2

-----------------------------------------------------------------------------
(* Characters and String.prototype.toUpperCase / toLowerCase.              *)

Lower == <<"a","b","c","d","e","f","g","h","i","j","k","l","m",
           "n","o","p","q","r","s","t","u","v","w","x","y","z">>

Upper == <<"A","B","C","D","E","F","G","H","I","J","K","L","M",
           "N","O","P","Q","R","S","T","U","V","W","X","Y","Z">>

\* KELVIN SIGN: an upper-case letter whose lower case is "k".
KelvinSign == "U+212A"

\* LATIN SMALL LETTER SHARP S: its upper case is the two letters "SS".
SharpS == "U+00DF"

IndexIn(c, s) == IF \E i \in DOMAIN s : s[i] = c
                 THEN CHOOSE i \in DOMAIN s : s[i] = c
                 ELSE 0

\* The upper case of one character, as a string (the full Unicode mapping
\* may be longer than one character).
toUpperCaseChar(c) ==
    IF IndexIn(c, Lower) # 0 THEN <<Upper[IndexIn(c, Lower)]>>
    ELSE IF c = SharpS THEN <<"S", "S">>
    ELSE <<c>>

toLowerCaseChar(c) ==
    IF IndexIn(c, Upper) # 0 THEN <<Lower[IndexIn(c, Upper)]>>
    ELSE IF c = KelvinSign THEN <<"k">>
    ELSE <<c>>

RECURSIVE toUpperCase(_)
toUpperCase(s) ==
    IF s = <<>> THEN <<>>
    ELSE toUpperCaseChar(Head(s)) \o toUpperCase(Tail(s))

\* String.prototype.indexOf: the first 0-based position at which t occurs in
\* s, -1 when there is none.
indexOf(s, t) ==
    LET hits == {p \in 0..(Len(s) - Len(t)) : SubSeq(s, p + 1, p + Len(t)) = t}
    IN IF hits = {} THEN -1
       ELSE CHOOSE p \in hits : \A r \in hits : p <= r

-----------------------------------------------------------------------------
(* filter_list                                                             *)

\* The characters the user types and the rendered labels are made of.
Alphabet == {"k", "K", KelvinSign}

SeqsUpTo(S, n) == UNION {[1..k -> S] : k \in 0..n}

\* A list item: the text contents of its <span> descendants in document
\* order (none, or one) and its style.display.
Labels == SeqsUpTo(Alphabet, MaxLabelLen)

Items == [spans : {<<>>} \cup {<<l>> : l \in Labels}, display : {"", "none"}]

Str_Acme == <<"A","c","m","e"," ","C","o","r","p">>

Str_Widget == <<"W","i","d","g","e","t"," ","C","o">>

Str_acme == <<"a","c","m","e"," ","I","n","d","u","s","t","r","i","e","s">>

Str_Alpha == <<"A","l","p","h","a">>

Shown(l) == [spans |-> <<l>>, display |-> ""]

Hidden(l) == [spans |-> <<l>>, display |-> "none"]

Unlabelled(d) == [spans |-> <<>>, display |-> d]

\* Rendered lists and typed values of the worked examples, a list with an
\* item that has no span, and a label whose upper case is longer than it.
ExampleLists == {<<Shown(Str_Acme), Shown(Str_Widget), Shown(Str_acme)>>,
                 <<Shown(Str_Alpha)>>,
                 <<Hidden(Str_Alpha), Unlabelled(""), Hidden(Str_Acme)>>,
                 <<Shown(<<"k", SharpS>>), Hidden(<<"K", "s", "S">>)>>}

ExampleQueries == {<<"a","c","m","e">>, <<"A","C">>, <<"s","s">>, <<SharpS>>}

\* The text rendered for a span; it is read only when textContent is empty,
\* and then nothing is rendered.
innerText(a) == a

\* The search text compared as it was typed.
filter_of_as_typed(value) == value

\* Line 5: the search text the labels are compared with.
filter_of(value) == toUpperCase(value)

\* The test "indexOf(filter) > 0": a match at the start counts as none.
display_for_after_start(txtValue, filter) ==
    IF indexOf(toUpperCase(txtValue), filter) > 0 THEN "" ELSE "none"

\* Lines 14-18: the style.display an item gets.
display_for(txtValue, filter) ==
    IF indexOf(toUpperCase(txtValue), filter) > -1 THEN "" ELSE "none"

\* The loop that removes an item that does not match instead of hiding it.
RECURSIVE filter_loop_removing(_, _, _)
filter_loop_removing(li, filter, i) ==
    IF i > Len(li) THEN [li |-> li, outcome |-> "completed"]
    ELSE IF li[i].spans = <<>> THEN [li |-> li, outcome |-> "TypeError"]
    ELSE LET a == li[i].spans[1]
             txtValue == IF a # <<>> THEN a ELSE innerText(a)
         IN IF display_for(txtValue, filter) = ""
            THEN filter_loop_removing([li EXCEPT ![i].display = ""], filter, i + 1)
            ELSE filter_loop_removing(SubSeq(li, 1, i - 1) \o SubSeq(li, i + 1, Len(li)),
                                      filter, i)

\* The loop that flips the display of an item that does not match instead
\* of setting it.
RECURSIVE filter_loop_toggling(_, _, _)
filter_loop_toggling(li, filter, i) ==
    IF i > Len(li) THEN [li |-> li, outcome |-> "completed"]
    ELSE IF li[i].spans = <<>> THEN [li |-> li, outcome |-> "TypeError"]
    ELSE LET a == li[i].spans[1]
             txtValue == IF a # <<>> THEN a ELSE innerText(a)
             flipped == IF li[i].display = "none" THEN "" ELSE "none"
         IN filter_loop_toggling(
                [li EXCEPT ![i].display =
                    IF display_for(txtValue, filter) = "" THEN "" ELSE flipped],
                filter, i + 1)

\* Lines 10-19, from item i on (i counts from 1).  Reading a property of
\* the missing first span raises a TypeError, which ends the call.
RECURSIVE filter_loop(_, _, _)
filter_loop(li, filter, i) ==
    IF i > Len(li) THEN [li |-> li, outcome |-> "completed"]
    ELSE IF li[i].spans = <<>> THEN [li |-> li, outcome |-> "TypeError"]
    ELSE LET a == li[i].spans[1]
             txtValue == IF a # <<>> THEN a ELSE innerText(a)
         IN filter_loop([li EXCEPT ![i].display = display_for(txtValue, filter)],
                        filter, i + 1)

\* The whole call, for an input value and a list.
filter_list(value, li) == filter_loop(li, filter_of(value), 1)

FilterInit ==
    /\ list_items \in SeqsUpTo(Items, MaxItems) \cup ExampleLists
    /\ list_search \in {<<>>} \cup ExampleQueries
    /\ filterRun = "none"

\* The user types a character into the search field.
TypeChar ==
    /\ Len(list_search) < MaxQueryLen
    /\ \E c \in Alphabet : list_search' = Append(list_search, c)
    /\ filterRun' = "none"
    /\ UNCHANGED list_items

\* The user deletes the last character of the search field.
Backspace ==
    /\ list_search # <<>>
    /\ list_search' = SubSeq(list_search, 1, Len(list_search) - 1)
    /\ filterRun' = "none"
    /\ UNCHANGED list_items

FilterList ==
    /\ list_items' = filter_list(list_search, list_items).li
    /\ filterRun' = filter_list(list_search, list_items).outcome
    /\ UNCHANGED list_search

FilterNext == TypeChar \/ Backspace \/ FilterList

FilterIdle ==
    /\ list_search = <<>>
    /\ list_items = <<>>
    /\ filterRun = "none"

-----------------------------------------------------------------------------
(* close_modal.js                                                          *)

MaxStray == 2

\* The .modal elements of the page, in document order.
ModalEls == <<"modal1", "modal2">>

Modals == {ModalEls[i] : i \in DOMAIN ModalEls}

\* document.querySelector('.modal.show'): the first match in document
\* order, null when there is none.
querySelector_modal_show(sh) ==
    IF \E i \in DOMAIN ModalEls : ModalEls[i] \in sh
    THEN ModalEls[CHOOSE i \in DOMAIN ModalEls :
                      /\ ModalEls[i] \in sh
                      /\ \A j \in DOMAIN ModalEls : ModalEls[j] \in sh => i <= j]
    ELSE "null"

\* bootstrap.Modal.getInstance: the instance made for the element, or null.
getInstance(el, inst) == IF el \in inst THEN el ELSE "null"

\* Only the backdrop of the modal being hidden is removed.
backdrops_after_remove_own(own, stray) == [own |-> {}, stray |-> stray]

\* Lines 8-10: the .modal-backdrop elements left once each one was removed.
backdrops_after_remove(own, stray) == [own |-> {}, stray |-> 0]

ModalInit ==
    /\ shown = {}
    /\ instances = {}
    /\ hiding = {}
    /\ ownBackdrop = {}
    /\ strayBackdrops = 0
    /\ closeRun = [kind |-> "none", modal |-> "null"]

\* Bootstrap opens a modal: the instance is made, the element gets the class
\* show and a backdrop element is appended to the page.
BootstrapShow ==
    \E m \in Modals :
        /\ m \notin shown
        /\ m \notin hiding
        /\ shown' = shown \cup {m}
        /\ instances' = instances \cup {m}
        /\ ownBackdrop' = ownBackdrop \cup {m}
        /\ closeRun' = [kind |-> "none", modal |-> "null"]
        /\ UNCHANGED <<hiding, strayBackdrops>>

\* The user dismisses a modal: Bootstrap takes the class show away at once
\* and removes the backdrop when the transition ends.
UserDismiss ==
    \E m \in shown :
        /\ shown' = shown \ {m}
        /\ hiding' = hiding \cup {m}
        /\ closeRun' = [kind |-> "none", modal |-> "null"]
        /\ UNCHANGED <<instances, ownBackdrop, strayBackdrops>>

\* The hide transition of a modal ends: Bootstrap removes its backdrop.
BootstrapHidden ==
    \E m \in hiding :
        /\ hiding' = hiding \ {m}
        /\ ownBackdrop' = ownBackdrop \ {m}
        /\ closeRun' = [kind |-> "none", modal |-> "null"]
        /\ UNCHANGED <<shown, instances, strayBackdrops>>

\* A swap replaces an open modal's element: the new element has neither the
\* class show nor an instance, and the old backdrop stays in the page.
SwapReplacesModal ==
    \E m \in shown :
        /\ strayBackdrops < MaxStray
        /\ shown' = shown \ {m}
        /\ instances' = instances \ {m}
        /\ ownBackdrop' = ownBackdrop \ {m}
        /\ strayBackdrops' = strayBackdrops + 1
        /\ closeRun' = [kind |-> "none", modal |-> "null"]
        /\ UNCHANGED hiding

\* The script, lines 2-12.
close_modal ==
    LET el == querySelector_modal_show(shown)
        modal == getInstance(el, instances)
        left == backdrops_after_remove(ownBackdrop, strayBackdrops)
    IN IF modal # "null"
       THEN /\ shown' = shown \ {modal}
            /\ hiding' = hiding \cup {modal}
            /\ ownBackdrop' = left.own
            /\ strayBackdrops' = left.stray
            /\ closeRun' = [kind |-> "hid", modal |-> modal]
            /\ UNCHANGED instances
       ELSE /\ closeRun' = [kind |-> "nothing", modal |-> el]
            /\ UNCHANGED <<shown, instances, hiding, ownBackdrop, strayBackdrops>>

ModalNext ==
    \/ BootstrapShow
    \/ UserDismiss
    \/ BootstrapHidden
    \/ SwapReplacesModal
    \/ close_modal

-----------------------------------------------------------------------------
(* copy_to_clipboard                                                       *)

MaxPending == 2

\* The text fields of the page, by id.
Fields == {"query_a", "query_b"}

\* An element that is no text field (it has no select method), and an id no
\* element has.
OtherElements == {"heading"}

MissingIds == {"no_such_id"}

Ids == Fields \cup OtherElements \cup MissingIds

Texts == {"", "SELECT 1", "SELECT 2"}

\* What the clipboard holds before the page wrote to it.
ForeignText == "from another application"

\* Line 4: document.getElementById.
getElementById(Id) == IF Id \in MissingIds THEN "null" ELSE Id

\* The text the field was rendered with instead of its current value.
value_of_default(copyText, values) == ""

\* Line 12: the string handed to writeText, read from the field at the call.
value_of(copyText, values) == values[copyText]

NoClipEvent ==
    [kind |-> "none", id |-> "null", outcome |-> "none",
     text |-> "", before |-> ""]

ClipInit ==
    /\ fieldValue \in [Fields -> {""}]
    /\ selection = "null"
    /\ permission \in {"granted", "denied"}
    /\ clipboard = ForeignText
    /\ pendingWrites = <<>>
    /\ clipEvent = NoClipEvent

ClipIdle ==
    /\ fieldValue = [f \in Fields |-> ""]
    /\ selection = "null"
    /\ permission = "granted"
    /\ clipboard = ForeignText
    /\ pendingWrites = <<>>
    /\ clipEvent = NoClipEvent

\* The user (or the page) changes the text of a field.
EditField ==
    \E f \in Fields, t \in Texts :
        /\ fieldValue[f] # t
        /\ fieldValue' = [fieldValue EXCEPT ![f] = t]
        /\ selection' = IF selection = f THEN "null" ELSE selection
        /\ clipEvent' = NoClipEvent
        /\ UNCHANGED <<permission, clipboard, pendingWrites>>

\* The user grants or withdraws the clipboard permission.
SetPermission ==
    /\ permission' = IF permission = "granted" THEN "denied" ELSE "granted"
    /\ clipEvent' = NoClipEvent
    /\ UNCHANGED <<fieldValue, selection, clipboard, pendingWrites>>

\* The function, lines 2-13.  select() on null or on an element without
\* that method raises a TypeError; writeText returns a promise and the call
\* returns without waiting for it.
copy_to_clipboard(Id) ==
    LET copyText == getElementById(Id)
    IN IF copyText \notin Fields
       THEN /\ clipEvent' = [kind |-> "called", id |-> Id, outcome |-> "TypeError",
                             text |-> "", before |-> clipboard]
            /\ UNCHANGED <<fieldValue, selection, permission, clipboard, pendingWrites>>
       ELSE /\ Len(pendingWrites) < MaxPending
            /\ selection' = copyText
            /\ pendingWrites' = Append(pendingWrites,
                                       [data |-> value_of(copyText, fieldValue),
                                        atCall |-> fieldValue[Id]])
            /\ clipEvent' = [kind |-> "called", id |-> Id, outcome |-> "returned",
                             text |-> fieldValue[Id], before |-> clipboard]
            /\ UNCHANGED <<fieldValue, permission, clipboard>>

CopyCall == \E Id \in Ids : copy_to_clipboard(Id)

\* The browser settles the oldest writeText promise: with the permission it
\* stores the data and fulfils, without it the promise is rejected.  The
\* function attached no handler, so the rejection reaches no caller.
SettleWrite ==
    /\ pendingWrites # <<>>
    /\ pendingWrites' = Tail(pendingWrites)
    /\ IF permission = "granted"
       THEN /\ clipboard' = Head(pendingWrites).data
            /\ clipEvent' = [kind |-> "settled", id |-> "null", outcome |-> "fulfilled",
                             text |-> Head(pendingWrites).atCall, before |-> clipboard]
       ELSE /\ clipboard' = clipboard
            /\ clipEvent' = [kind |-> "settled", id |-> "null", outcome |-> "rejected",
                             text |-> Head(pendingWrites).atCall, before |-> clipboard]
    /\ UNCHANGED <<fieldValue, selection, permission>>

ClipNext == EditField \/ SetPermission \/ CopyCall \/ SettleWrite

-----------------------------------------------------------------------------
(* litehouse-start.bat and litehouse-install.bat                           *)

\* The log levels BillingKit.run accepts (litehouse-start.bat, line 12).
LogLevels == {"DEBUG", "INFO", "WARNING", "ERROR", "CRITICAL"}

\* What a user may put after the script's name.
UserArgs == {"", "DEBUG", "VERBOSE"}

\* litehouse-start.bat line 3, litehouse-install.bat line 4: if exist .venv
exist_venv(v) == v

\* The script's own first argument passed on as it is.
launch_level_from_arg(arg) == arg

\* litehouse-start.bat line 13: the argument given to BillingKit.run; arg is
\* the script's own first argument.
launch_level(arg) == "INFO"

NoStartRun == [sawVenv |-> "unchecked", activated |-> FALSE, launched |-> "none"]

NoInstallRun == [sawVenv |-> "unchecked", activated |-> FALSE, installed |-> FALSE]

ScriptInit ==
    /\ venv \in BOOLEAN
    /\ venvCreatedBy = IF venv THEN "earlier" ELSE "nobody"
    /\ startPc = "idle"
    /\ startArg = ""
    /\ startRun = NoStartRun
    /\ installPc = "idle"
    /\ installRun = NoInstallRun

ScriptIdle ==
    /\ venv = FALSE
    /\ venvCreatedBy = "nobody"
    /\ startPc = "idle"
    /\ startArg = ""
    /\ startRun = NoStartRun
    /\ installPc = "idle"
    /\ installRun = NoInstallRun

\* The user runs litehouse-start.bat.
StartInvoke ==
    /\ startPc = "idle"
    /\ \E a \in UserArgs : startArg' = a
    /\ startRun' = NoStartRun
    /\ startPc' = "line3"
    /\ UNCHANGED <<venv, venvCreatedBy, installPc, installRun>>

\* Line 3: if exist .venv
StartCheck ==
    /\ startPc = "line3"
    /\ startRun' = [startRun EXCEPT !.sawVenv = IF venv THEN "yes" ELSE "no"]
    /\ startPc' = IF exist_venv(venv) THEN "line7" ELSE "line16"
    /\ UNCHANGED <<venv, venvCreatedBy, startArg, installPc, installRun>>

\* Line 7: call .\.venv\Scripts\activate
StartActivate ==
    /\ startPc = "line7"
    /\ startRun' = [startRun EXCEPT !.activated = venv]
    /\ startPc' = "line13"
    /\ UNCHANGED <<venv, venvCreatedBy, startArg, installPc, installRun>>

\* Line 13: python -m BillingKit.run "INFO"
StartLaunch ==
    /\ startPc = "line13"
    /\ startRun' = [startRun EXCEPT !.launched = launch_level(startArg)]
    /\ startPc' = "line14"
    /\ UNCHANGED <<venv, venvCreatedBy, startArg, installPc, installRun>>

\* Line 14, once the service process has ended: the closing message.
StartEchoStarted ==
    /\ startPc = "line14"
    /\ startPc' = "end"
    /\ UNCHANGED <<venv, venvCreatedBy, startArg, startRun, installPc, installRun>>

\* Lines 16-17: the message and the pause of the else branch.
StartMissing ==
    /\ startPc = "line16"
    /\ startPc' = "end"
    /\ UNCHANGED <<venv, venvCreatedBy, startArg, startRun, installPc, installRun>>

\* The script is over; it can be run again.
StartExit ==
    /\ startPc = "end"
    /\ startPc' = "idle"
    /\ UNCHANGED <<venv, venvCreatedBy, startArg, startRun, installPc, installRun>>

\* The user runs litehouse-install.bat.
InstallInvoke ==
    /\ installPc = "idle"
    /\ installRun' = NoInstallRun
    /\ installPc' = "line4"
    /\ UNCHANGED <<venv, venvCreatedBy, startPc, startArg, startRun>>

\* Line 4: if exist .venv
InstallCheck ==
    /\ installPc = "line4"
    /\ installRun' = [installRun EXCEPT !.sawVenv = IF venv THEN "yes" ELSE "no"]
    /\ installPc' = IF exist_venv(venv) THEN "line15" ELSE "line8"
    /\ UNCHANGED <<venv, venvCreatedBy, startPc, startArg, startRun>>

\* Lines 8-10: python -m venv .venv, which makes the directory or fails.
InstallCreate ==
    /\ installPc = "line8"
    /\ \E made \in BOOLEAN :
          /\ venv' = (venv \/ made)
          /\ venvCreatedBy' = IF made /\ ~venv THEN "install" ELSE venvCreatedBy
    /\ installPc' = "line15"
    /\ UNCHANGED <<startPc, startArg, startRun, installRun>>

\* Line 15: call .\.venv\Scripts\activate
InstallActivate ==
    /\ installPc = "line15"
    /\ installRun' = [installRun EXCEPT !.activated = venv]
    /\ installPc' = "line19"
    /\ UNCHANGED <<venv, venvCreatedBy, startPc, startArg, startRun>>

\* Lines 19-21: pip install . and the closing message.
InstallPackage ==
    /\ installPc = "line19"
    /\ installRun' = [installRun EXCEPT !.installed = TRUE]
    /\ installPc' = "end"
    /\ UNCHANGED <<venv, venvCreatedBy, startPc, startArg, startRun>>

InstallExit ==
    /\ installPc = "end"
    /\ installPc' = "idle"
    /\ UNCHANGED <<venv, venvCreatedBy, startPc, startArg, startRun, installRun>>

ScriptNext ==
    \/ StartInvoke
    \/ StartCheck
    \/ StartActivate
    \/ StartLaunch
    \/ StartEchoStarted
    \/ StartMissing
    \/ StartExit
    \/ InstallInvoke
    \/ InstallCheck
    \/ InstallCreate
    \/ InstallActivate
    \/ InstallPackage
    \/ InstallExit

-----------------------------------------------------------------------------
(* The specifications: one per script of the repository.                   *)

Init == FilterInit /\ ModalInit /\ ClipIdle /\ ScriptIdle

Next == FilterNext /\ UNCHANGED <<modalVars, clipVars, scriptVars>>

Spec == Init /\ [][Next]_vars

InitModal == ModalInit /\ FilterIdle /\ ClipIdle /\ ScriptIdle

NextModal == ModalNext /\ UNCHANGED <<filterVars, clipVars, scriptVars>>

SpecModal == InitModal /\ [][NextModal]_vars

InitClip == ClipInit /\ FilterIdle /\ ModalInit /\ ScriptIdle

NextClip == ClipNext /\ UNCHANGED <<filterVars, modalVars, scriptVars>>

SpecClip == InitClip /\ [][NextClip]_vars

InitStart == ScriptInit /\ FilterIdle /\ ModalInit /\ ClipIdle

NextStart == ScriptNext /\ UNCHANGED <<filterVars, modalVars, clipVars>>

SpecStart == InitStart /\ [][NextStart]_vars

-----------------------------------------------------------------------------
(* The properties.                                                         *)

\* t occurs in s as a contiguous run of characters.
ContainsRun(s, t) ==
    \E pre \in 0..Len(s) :
        /\ pre + Len(t) <= Len(s)
        /\ \A k \in 1..Len(t) : s[pre + k] = t[k]

\* The label of an item; an item without a label has the empty label.
LabelOf(item) == IF item.spans = <<>> THEN <<>> ELSE item.spans[1]

\* The label, upper-cased, contains the query, upper-cased.
LabelMatches(item, query) ==
    ContainsRun(toUpperCase(LabelOf(item)), toUpperCase(query))

LabelsOf(li) == [i \in DOMAIN li |-> LabelOf(li[i])]

DisplaysOf(li) == [i \in DOMAIN li |-> li[i].display]

\* A step of the model that is a call of filter_list.
IsFilterPass == filterRun' # "none"

\* C1: after every completed filter_list pass each item is shown
\* (display = "") if and only if its label, upper-cased, contains the query,
\* upper-cased, as a contiguous substring, and is hidden (display = "none")
\* otherwise; the labels "Acme Corp", "Widget Co", "acme Industries" with
\* the query "acme" end shown, hidden, shown.
C1_ShownIffLabelContainsQuery ==
    filterRun = "completed" =>
        /\ \A i \in DOMAIN list_items :
              /\ list_items[i].display = "" <=> LabelMatches(list_items[i], list_search)
              /\ list_items[i].display = "none" <=> ~LabelMatches(list_items[i], list_search)
        /\ (/\ LabelsOf(list_items) = <<Str_Acme, Str_Widget, Str_acme>>
            /\ list_search = <<"a","c","m","e">>)
              => DisplaysOf(list_items) = <<"", "none", "">>

C1_Witness ==
    /\ filterRun = "completed"
    /\ LabelsOf(list_items) = <<Str_Acme, Str_Widget, Str_acme>>
    /\ list_search = <<"a","c","m","e">>
    /\ DisplaysOf(list_items) = <<"", "none", "">>

\* C2: every filter pass, for every query and every list, items without a
\* label included, ends without an error and has given every item the
\* visibility its label (the empty string when it has none) calls for.
C2_EveryPassCompletes ==
    filterRun # "none" =>
        /\ filterRun = "completed"
        /\ \A i \in DOMAIN list_items :
              list_items[i].display = "" <=> LabelMatches(list_items[i], list_search)

\* C3: a filter pass changes nothing but the items' visibility: the number
\* of items, their order, their labels and the query text stay as they were.
C3_PassOnlyChangesDisplay ==
    [][IsFilterPass =>
          /\ Len(list_items') = Len(list_items)
          /\ \A i \in DOMAIN list_items : list_items'[i].spans = list_items[i].spans
          /\ list_search' = list_search]_vars

C3_Witness ==
    /\ filterRun = "completed"
    /\ list_search # <<>>
    /\ \E i \in DOMAIN list_items : list_items[i].display = "none"
    /\ \E i \in DOMAIN list_items : list_items[i].display = ""

\* C4: after any sequence of filter passes, from any initial visibility,
\* the visibility of every item is the one the last query and the labels
\* call for; nothing of an earlier pass or of the initial state remains.
C4_LastQueryDecides ==
    filterRun # "none" =>
        \A i \in DOMAIN list_items :
            list_items[i].display =
                (IF LabelMatches(list_items[i], list_search) THEN "" ELSE "none")

\* C5: a second filter pass with the same query over the same list leaves
\* the visibility assignment of the first pass as it is.
C5_SecondPassChangesNothing ==
    filterRun # "none" =>
        DisplaysOf(filter_list(list_search, list_items).li) = DisplaysOf(list_items)

C5_Witness ==
    /\ filterRun # "none"
    /\ Len(list_items) > 1
    /\ \E i \in DOMAIN list_items : list_items[i].display = "none"

\* C6: a filter pass with the empty query makes every item visible.
C6_EmptyQueryShowsAll ==
    (filterRun # "none" /\ list_search = <<>>) =>
        \A i \in DOMAIN list_items : list_items[i].display = ""

IsAsciiLetter(c) == IndexIn(c, Lower) # 0 \/ IndexIn(c, Upper) # 0

\* The strings a character becomes when its case is changed, itself included.
CharCaseVariants(c) == {<<c>>, toUpperCaseChar(c), toLowerCaseChar(c)}

AsciiCharCaseVariants(c) == IF IsAsciiLetter(c) THEN CharCaseVariants(c) ELSE {<<c>>}

\* The strings obtained from q by changing the case of some of its letters.
RECURSIVE CaseVariants(_)
CaseVariants(q) ==
    IF q = <<>> THEN {<<>>}
    ELSE {h \o t : h \in CharCaseVariants(Head(q)), t \in CaseVariants(Tail(q))}

\* The same, changing only letters of the ASCII alphabet.
RECURSIVE AsciiCaseVariants(_)
AsciiCaseVariants(q) ==
    IF q = <<>> THEN {<<>>}
    ELSE {h \o t : h \in AsciiCharCaseVariants(Head(q)), t \in AsciiCaseVariants(Tail(q))}

\* C7 as stated: a pass with the query q and a pass with any string got from
\* q by changing the case of some of its letters give the same visibility.
C7_AnyCaseVariantSameResult ==
    [][IsFilterPass =>
          \A q2 \in CaseVariants(list_search) :
              DisplaysOf(filter_list(q2, list_items).li) = DisplaysOf(list_items')]_vars

\* C7 as amended: a pass with the query q and a pass with any string got
\* from q by changing the case of some of its ASCII letters give the same
\* visibility.
C7_AsciiCaseVariantSameResult ==
    [][IsFilterPass =>
          \A q2 \in AsciiCaseVariants(list_search) :
              DisplaysOf(filter_list(q2, list_items).li) = DisplaysOf(list_items')]_vars

C7_Witness ==
    /\ filterRun = "completed"
    /\ AsciiCaseVariants(list_search) # {list_search}
    /\ \E i \in DOMAIN list_items :
          /\ list_items[i].display = ""
          /\ ~ContainsRun(LabelOf(list_items[i]), list_search)

\* A step of the model that is a run of close_modal.js.
IsCloseRun == closeRun'.kind # "none"

C9_ClipboardGetsValueAtCall ==
    /\ (clipEvent.kind = "settled" /\ clipEvent.outcome = "fulfilled")
          => clipboard = clipEvent.text
    /\ (clipEvent.kind = "settled" /\ clipEvent.outcome = "rejected")
          => clipboard = clipEvent.before
    /\ (clipEvent.kind = "called" /\ clipEvent.id \in Fields /\ permission = "denied")
          => (clipEvent.outcome = "returned" /\ clipboard = clipEvent.before)

C9_Witness ==
    /\ clipEvent.kind = "settled"
    /\ clipEvent.outcome = "fulfilled"
    /\ clipboard \in Texts \ {""}
    /\ \A f \in Fields : fieldValue[f] # clipboard

\* C10: in every run of the start script the service is launched only if
\* .venv existed when line 3 checked it, only after the activation line ran
\* with .venv in place, and with a log level out of DEBUG, INFO, WARNING,
\* ERROR, CRITICAL; a run that found no .venv launches nothing and creates
\* no environment.
C10_LaunchOnlyWithVenv ==
    /\ startRun.launched # "none" =>
          /\ startRun.sawVenv = "yes"
          /\ startRun.activated
          /\ startRun.launched \in LogLevels
    /\ startRun.sawVenv = "no" =>
          /\ startRun.launched = "none"
          /\ startPc \in {"line16", "end", "idle"}
          /\ venvCreatedBy # "start"

C10_Witness ==
    /\ startRun.launched = "INFO"
    /\ startArg = "VERBOSE"
    /\ venvCreatedBy = "install"
====
